---- MODULE Spec2Model ----
(***************************************************************************)
(* Model of the pool (BpfAmm, crates/sim/src/amm.rs) and of the command    *)
(* line loader (crates/cli/src/commands/run.rs) of prop-amm-challenge.     *)
(*                                                                         *)
(* f64 values are counted in quanta: one nano-unit is SubNano quanta, so a *)
(* f64 can hold a fraction of a nano-unit and f64_to_nano has something to *)
(* floor.  A finite f64 keeps MantBits significant bits; sums and          *)
(* differences are rounded to nearest, ties to even.  u64 is scaled down   *)
(* to 0..U64Max.                                                           *)
(***************************************************************************)
EXTENDS Integers, Sequences, FiniteSets, TLC

VARIABLES
    backend,        \* BpfAmm.backend: which executor the pool is bound to
    reserve_x,      \* BpfAmm.reserve_x (f64, in quanta)
    reserve_y,      \* BpfAmm.reserve_y (f64, in quanta)
    storage,        \* BpfAmm.storage: Vec<u8>
    last,           \* the most recent pool operation: name, input, return, calls made
    pc,             \* run(): position in run_native / run_bpf
    env,            \* what run() finds on disk and in the loaded library
    LOADED_SWAP,        \* static AtomicPtr, run.rs:15
    LOADED_AFTER_SWAP,  \* static AtomicPtr, run.rs:16
    batch,          \* the runner batch function called and the handles passed to it
    invoked,        \* strategy calls made by the batch, in order
    printed,        \* what run() printed, in order
    outcome,        \* what run() returned
    mem,            \* the two atomics as threads see them: stores made, workers' view
    sim,            \* engine: the two simulations of one config, run one after the other
    runner,         \* batch runner: task queue, workers, merged results
    sw,             \* the starter strategy's last call: request and output
    sdk             \* submission-sdk: the last set_storage call and the syscalls made

poolVars == <<backend, reserve_x, reserve_y, storage, last>>
runVars  == <<pc, env, LOADED_SWAP, LOADED_AFTER_SWAP, batch, invoked, printed, outcome, mem>>
libVars  == <<sim, runner, sw, sdk>>
vars     == <<backend, reserve_x, reserve_y, storage, last,
              pc, env, LOADED_SWAP, LOADED_AFTER_SWAP, batch, invoked, printed, outcome,
              mem, sim, runner, sw, sdk>>

----------------------------------------------------------------------------
(* Bounds *)

SubNano   == 2      \* quanta per nano-unit
U64Max    == 3      \* largest nano amount (u64::MAX scaled down)
MantBits  == 2      \* significant bits of a finite f64
MaxReserve == 6     \* largest reserve explored, in quanta
MaxDebt   == 2      \* most negative reserve explored, in quanta
MaxCalls  == 2      \* thunk invocations a batch makes at most
NumWorkers == 2     \* worker threads of a batch

STORAGE_SIZE == 1024

Min(a, b) == IF a < b THEN a ELSE b

RECURSIVE Pow2(_)
Pow2(n) == IF n = 0 THEN 1 ELSE 2 * Pow2(n - 1)

----------------------------------------------------------------------------
(* f64 arithmetic *)

\* Spacing of the representable values around magnitude a.
RECURSIVE Ulp(_)
Ulp(a) == IF a < Pow2(MantBits) THEN 1 ELSE 2 * Ulp(a \div 2)

RoundAbs(a) ==
    LET u  == Ulp(a)
        lo == (a \div u) * u
        r  == a - lo
    IN  IF 2 * r < u THEN lo
        ELSE IF 2 * r > u THEN lo + u
        ELSE IF (lo \div u) % 2 = 0 THEN lo ELSE lo + u

\* Round to nearest representable f64, ties to even.
F64Round(v) == IF v < 0 THEN 0 - RoundAbs(0 - v) ELSE RoundAbs(v)

F64Add(a, b) == F64Round(a + b)

F64Sub(a, b) == F64Round(a - b)

\* prop_amm_shared::nano::f64_to_nano: x <= 0 -> 0, else floor(x * 1e9) clamped to u64.
f64_to_nano(x) == IF x <= 0 THEN 0 ELSE Min(x \div SubNano, U64Max)

\* prop_amm_shared::nano::nano_to_f64: n / 1e9.
nano_to_f64(n) == F64Round(n * SubNano)

----------------------------------------------------------------------------
(* Storage *)

\* A byte vector Vec<u8>: its length and its non-zero bytes (index :> byte);
\* every index of 1..len outside DOMAIN nz holds 0.
VecZero(n) == [len |-> n, nz |-> <<>>]

ByteAt(st, i) == IF i \in DOMAIN st.nz THEN st.nz[i] ELSE 0

WriteByte(st, i, b) ==
    IF b = 0
    THEN [st EXCEPT !.nz = [j \in DOMAIN st.nz \ {i} |-> st.nz[j]]]
    ELSE [st EXCEPT !.nz = [j \in DOMAIN st.nz \cup {i} |-> IF j = i THEN b ELSE st.nz[j]]]

\* Vec::clear in place of fill(0)
FillZero_clear(st) == VecZero(0)

\* slice::fill(0)
FillZero(st) == [st EXCEPT !.nz = <<>>]

AllZero(st) == \A i \in DOMAIN st.nz : st.nz[i] = 0

\* What an after-swap hook may do to the slice it is handed: leave it, or
\* write a byte at its far end.
Bytes == {0, 255}
HookIdx(st) == {st.len} \cap (1..st.len)
HookWrites(st) == {st} \cup {WriteByte(st, i, b) : i \in HookIdx(st), b \in Bytes}

----------------------------------------------------------------------------
(* Executors (prop_amm_executor): what one call of the bound strategy can do *)

Backends ==
    {[kind |-> "Bpf", after_swap_fn |-> TRUE, noop |-> n] : n \in BOOLEAN} \cup
    {[kind |-> "Native", after_swap_fn |-> TRUE, noop |-> n] : n \in BOOLEAN} \cup
    {[kind |-> "Native", after_swap_fn |-> FALSE, noop |-> FALSE]}

SwapOutputs == {0, 1, U64Max}

\* starter_after_swap: a hook that is a no-op
starter_after_swap(data, st) == st

\* BpfExecutor::execute returns Result<u64, _>; NativeExecutor::execute returns u64.
SwapResults(b) ==
    {[ok |-> TRUE, val |-> v] : v \in SwapOutputs} \cup
    (IF b.kind = "Bpf" THEN {[ok |-> FALSE, val |-> 0]} ELSE {})

\* execute_after_swap: the hook may write the storage it is handed.  A failed
\* BPF call and an absent native hook write nothing.
AfterResults(b, st) ==
    IF b.kind = "Bpf"
    THEN {[ok |-> TRUE, st |-> s] : s \in (IF b.noop THEN {starter_after_swap(<<>>, st)}
                                                     ELSE HookWrites(st))}
            \cup {[ok |-> FALSE, st |-> st]}
    ELSE IF b.after_swap_fn
         THEN {[ok |-> TRUE, st |-> s] : s \in (IF b.noop THEN {starter_after_swap(<<>>, st)}
                                                          ELSE HookWrites(st))}
         ELSE {[ok |-> TRUE, st |-> st]}

----------------------------------------------------------------------------
(* BpfAmm *)

InitReserves  == {0, MaxReserve}
ResetReserves == {0, 3}
Inputs        == {0 - 2, 0, 1, 4}

NoOp == [op |-> "new", input |-> 0, ret |-> 0, calls |-> <<>>]

\* unwrap_or(u64::MAX) in place of unwrap_or(0)
call_unwrap_max(res) == IF res.ok THEN res.val ELSE U64Max

\* BpfAmm::call: the swap function sees the storage read-only.
call(res) ==
    IF backend.kind = "Bpf"
    THEN (IF res.ok THEN res.val ELSE 0)
    ELSE res.val

\* The executor call handed a fresh zeroed buffer in place of self.storage
SwapCall_fresh(side, amount, rx, ry, res) ==
    [fn |-> "swap", side |-> side, amount |-> amount, rx |-> rx, ry |-> ry,
     storage |-> VecZero(storage.len), ok |-> res.ok]

\* The executor call made by BpfAmm::call, with the storage it is handed.
SwapCall(side, amount, rx, ry, res) ==
    [fn |-> "swap", side |-> side, amount |-> amount, rx |-> rx, ry |-> ry,
     storage |-> storage, ok |-> res.ok]

\* call_after_swap that stamps the first storage byte itself
call_after_swap_stamp(hk) == WriteByte(hk.st, 1, 255)

\* BpfAmm::call_after_swap: the storage the hook leaves; its Result is dropped.
call_after_swap(hk) == hk.st

AfterSwapCall(side, input_amount, output_amount, rx, ry, hk) ==
    [fn |-> "after_swap", side |-> side, input |-> input_amount,
     output |-> output_amount, rx |-> rx, ry |-> ry, ok |-> hk.ok]

Update(rx, ry) == [fn |-> "update", reserve_x |-> rx, reserve_y |-> ry]

\* quote_buy_x with the early return taken for input_y < 0.0 only
quote_buy_x_strict(input_y, res) ==
    IF input_y < 0
    THEN [ret |-> 0, calls |-> <<>>]
    ELSE [ret   |-> nano_to_f64(call(res)),
          calls |-> <<SwapCall(0, f64_to_nano(input_y), f64_to_nano(reserve_x),
                               f64_to_nano(reserve_y), res)>>]

\* BpfAmm::quote_buy_x: the return value and the executor calls it makes.
quote_buy_x(input_y, res) ==
    IF input_y <= 0
    THEN [ret |-> 0, calls |-> <<>>]
    ELSE [ret   |-> nano_to_f64(call(res)),
          calls |-> <<SwapCall(0, f64_to_nano(input_y), f64_to_nano(reserve_x),
                               f64_to_nano(reserve_y), res)>>]

\* BpfAmm::quote_sell_x
quote_sell_x(input_x, res) ==
    IF input_x <= 0
    THEN [ret |-> 0, calls |-> <<>>]
    ELSE [ret   |-> nano_to_f64(call(res)),
          calls |-> <<SwapCall(1, f64_to_nano(input_x), f64_to_nano(reserve_x),
                               f64_to_nano(reserve_y), res)>>]

InRange(v) == 0 - MaxDebt <= v /\ v <= MaxReserve

\* execute_buy_x that hands the hook the reserves read before the update.
ExecuteBuyX_stale(input_y, res, hk) ==
    LET q        == quote_buy_x(input_y, res)
        output_x == q.ret
        new_rx   == F64Sub(reserve_x, output_x)
        new_ry   == F64Add(reserve_y, input_y)
        rx       == f64_to_nano(reserve_x)
        ry       == f64_to_nano(reserve_y)
    IN  IF output_x > 0
        THEN /\ InRange(new_rx) /\ InRange(new_ry)
             /\ reserve_x' = new_rx
             /\ reserve_y' = new_ry
             /\ storage' = call_after_swap(hk)
             /\ last' = [op |-> "execute_buy_x", input |-> input_y, ret |-> output_x,
                         calls |-> q.calls \o
                            <<AfterSwapCall(0, f64_to_nano(input_y), f64_to_nano(output_x),
                                            rx, ry, hk),
                              Update(new_rx, new_ry)>>]
        ELSE /\ last' = [op |-> "execute_buy_x", input |-> input_y, ret |-> output_x,
                         calls |-> q.calls]
             /\ UNCHANGED <<reserve_x, reserve_y, storage>>

\* execute_buy_x that updates the reserves whatever the quote.
ExecuteBuyX_always(input_y, res, hk) ==
    LET q        == quote_buy_x(input_y, res)
        output_x == q.ret
        new_rx   == F64Sub(reserve_x, output_x)
        new_ry   == F64Add(reserve_y, input_y)
    IN  /\ InRange(new_rx) /\ InRange(new_ry)
        /\ reserve_x' = new_rx
        /\ reserve_y' = new_ry
        /\ storage' = call_after_swap(hk)
        /\ last' = [op |-> "execute_buy_x", input |-> input_y, ret |-> output_x,
                    calls |-> q.calls \o
                       <<Update(new_rx, new_ry),
                         AfterSwapCall(0, f64_to_nano(input_y), f64_to_nano(output_x),
                                       f64_to_nano(new_rx), f64_to_nano(new_ry), hk)>>]

\* BpfAmm::execute_buy_x
ExecuteBuyX(input_y, res, hk) ==
    LET q        == quote_buy_x(input_y, res)
        output_x == q.ret
        new_rx   == F64Sub(reserve_x, output_x)
        new_ry   == F64Add(reserve_y, input_y)
        rx       == f64_to_nano(new_rx)
        ry       == f64_to_nano(new_ry)
    IN  IF output_x > 0
        THEN /\ InRange(new_rx) /\ InRange(new_ry)
             /\ reserve_x' = new_rx
             /\ reserve_y' = new_ry
             /\ storage' = call_after_swap(hk)
             /\ last' = [op |-> "execute_buy_x", input |-> input_y, ret |-> output_x,
                         calls |-> q.calls \o
                            <<Update(new_rx, new_ry),
                              AfterSwapCall(0, f64_to_nano(input_y), f64_to_nano(output_x),
                                            rx, ry, hk)>>]
        ELSE /\ last' = [op |-> "execute_buy_x", input |-> input_y, ret |-> output_x,
                         calls |-> q.calls]
             /\ UNCHANGED <<reserve_x, reserve_y, storage>>

\* execute_sell_x with the two legs of the trade exchanged
ExecuteSellX_mirrored(input_x, res, hk) ==
    LET q        == quote_sell_x(input_x, res)
        output_y == q.ret
        new_rx   == F64Add(reserve_x, output_y)
        new_ry   == F64Sub(reserve_y, input_x)
        rx       == f64_to_nano(new_rx)
        ry       == f64_to_nano(new_ry)
    IN  IF output_y > 0
        THEN /\ InRange(new_rx) /\ InRange(new_ry)
             /\ reserve_x' = new_rx
             /\ reserve_y' = new_ry
             /\ storage' = call_after_swap(hk)
             /\ last' = [op |-> "execute_sell_x", input |-> input_x, ret |-> output_y,
                         calls |-> q.calls \o
                            <<Update(new_rx, new_ry),
                              AfterSwapCall(1, f64_to_nano(input_x), f64_to_nano(output_y),
                                            rx, ry, hk)>>]
        ELSE /\ last' = [op |-> "execute_sell_x", input |-> input_x, ret |-> output_y,
                         calls |-> q.calls]
             /\ UNCHANGED <<reserve_x, reserve_y, storage>>

\* BpfAmm::execute_sell_x
ExecuteSellX(input_x, res, hk) ==
    LET q        == quote_sell_x(input_x, res)
        output_y == q.ret
        new_rx   == F64Add(reserve_x, input_x)
        new_ry   == F64Sub(reserve_y, output_y)
        rx       == f64_to_nano(new_rx)
        ry       == f64_to_nano(new_ry)
    IN  IF output_y > 0
        THEN /\ InRange(new_rx) /\ InRange(new_ry)
             /\ reserve_x' = new_rx
             /\ reserve_y' = new_ry
             /\ storage' = call_after_swap(hk)
             /\ last' = [op |-> "execute_sell_x", input |-> input_x, ret |-> output_y,
                         calls |-> q.calls \o
                            <<Update(new_rx, new_ry),
                              AfterSwapCall(1, f64_to_nano(input_x), f64_to_nano(output_y),
                                            rx, ry, hk)>>]
        ELSE /\ last' = [op |-> "execute_sell_x", input |-> input_x, ret |-> output_y,
                         calls |-> q.calls]
             /\ UNCHANGED <<reserve_x, reserve_y, storage>>

\* reset without the storage fill
Reset_nofill(rx, ry) ==
    /\ reserve_x' = rx
    /\ reserve_y' = ry
    /\ storage' = storage
    /\ last' = [op |-> "reset", input |-> 0, ret |-> 0, calls |-> <<>>,
                rx |-> rx, ry |-> ry, cleared |-> Cardinality(DOMAIN storage.nz)]

\* BpfAmm::reset
Reset(rx, ry) ==
    /\ reserve_x' = rx
    /\ reserve_y' = ry
    /\ storage' = FillZero(storage)
    /\ last' = [op |-> "reset", input |-> 0, ret |-> 0, calls |-> <<>>,
                rx |-> rx, ry |-> ry, cleared |-> Cardinality(DOMAIN storage.nz)]

QuoteBuyX ==
    /\ \E input_y \in Inputs, res \in SwapResults(backend) :
          LET q == quote_buy_x(input_y, res)
          IN  last' = [op |-> "quote_buy_x", input |-> input_y, ret |-> q.ret,
                       calls |-> q.calls]
    /\ UNCHANGED <<backend, reserve_x, reserve_y, storage>>
    /\ UNCHANGED <<runVars, libVars>>

QuoteSellX ==
    /\ \E input_x \in Inputs, res \in SwapResults(backend) :
          LET q == quote_sell_x(input_x, res)
          IN  last' = [op |-> "quote_sell_x", input |-> input_x, ret |-> q.ret,
                       calls |-> q.calls]
    /\ UNCHANGED <<backend, reserve_x, reserve_y, storage>>
    /\ UNCHANGED <<runVars, libVars>>

ExecBuy ==
    /\ \E input_y \in Inputs, res \in SwapResults(backend) :
          \E hk \in AfterResults(backend, storage) : ExecuteBuyX(input_y, res, hk)
    /\ UNCHANGED backend
    /\ UNCHANGED <<runVars, libVars>>

ExecSell ==
    /\ \E input_x \in Inputs, res \in SwapResults(backend) :
          \E hk \in AfterResults(backend, storage) : ExecuteSellX(input_x, res, hk)
    /\ UNCHANGED backend
    /\ UNCHANGED <<runVars, libVars>>

DoReset ==
    /\ \E rx \in ResetReserves, ry \in ResetReserves : Reset(rx, ry)
    /\ UNCHANGED backend
    /\ UNCHANGED <<runVars, libVars>>

\* BpfAmm::new / BpfAmm::new_native
PoolInit ==
    /\ backend \in Backends
    /\ reserve_x \in InitReserves
    /\ reserve_y \in InitReserves
    /\ storage = VecZero(STORAGE_SIZE)
    /\ last = NoOp

NoBatch == [fn |-> "none", swap |-> "none", after_swap |-> "none"]

\* No run() in progress: the statics are as the process starts them.
NoEnv == [bpf |-> FALSE, file |-> FALSE, readable |-> FALSE, load_ok |-> FALSE,
          has_swap |-> FALSE, has_after |-> FALSE, batch_ok |-> FALSE]

\* static AtomicPtr::new(null_mut()) twice: each atomic's modification order
\* holds its initial value only, and no worker thread exists.
NullPtr == [val |-> "null", order |-> "init", at |-> "static"]
MemInit ==
    [mo      |-> [LOADED_SWAP |-> <<NullPtr>>, LOADED_AFTER_SWAP |-> <<NullPtr>>],
     view    |-> [LOADED_SWAP |-> 1, LOADED_AFTER_SWAP |-> 1],
     started |-> FALSE]

RunIdle ==
    /\ pc = "idle"
    /\ env = NoEnv
    /\ LOADED_SWAP = "null"
    /\ LOADED_AFTER_SWAP = "null"
    /\ batch = NoBatch
    /\ invoked = <<>>
    /\ printed = <<>>
    /\ outcome = "none"
    /\ mem = MemInit

\* Nothing of the engine, the runner, the starter strategy or the SDK in use.
NoSim    == [phase |-> "idle"]
NoRunner == [phase |-> "idle"]
NoSw     == [phase |-> "idle"]
NoSdk    == [phase |-> "idle"]

LibIdle ==
    /\ sim = NoSim
    /\ runner = NoRunner
    /\ sw = NoSw
    /\ sdk = NoSdk

Init == PoolInit /\ RunIdle /\ LibIdle

Next == QuoteBuyX \/ QuoteSellX \/ ExecBuy \/ ExecSell \/ DoReset

Spec == Init /\ [][Next]_vars

----------------------------------------------------------------------------
(* run(): loading a submission and starting the batch (cli/commands/run.rs) *)

\* What run() meets: the mode flag, whether the build output is on disk and
\* readable, whether it loads, which symbols it exports, and whether the
\* batch itself returns Ok.
Envs ==
    {[bpf |-> FALSE, file |-> f, readable |-> TRUE, load_ok |-> l,
      has_swap |-> s, has_after |-> a, batch_ok |-> b] :
        f \in BOOLEAN, l \in BOOLEAN, s \in BOOLEAN, a \in BOOLEAN, b \in BOOLEAN}
    \cup
    {[bpf |-> TRUE, file |-> f, readable |-> r, load_ok |-> l,
      has_swap |-> TRUE, has_after |-> TRUE, batch_ok |-> b] :
        f \in BOOLEAN, r \in BOOLEAN, l \in BOOLEAN, b \in BOOLEAN}

LoadErrors == {"Err: no native library", "Err: failed to load library",
               "Err: missing compute_swap_ffi", "Err: no BPF .so",
               "Err: failed to read", "Err: failed to load BPF program"}

Fail(e) ==
    /\ pc' = "done"
    /\ outcome' = e
    /\ UNCHANGED <<env, LOADED_SWAP, LOADED_AFTER_SWAP, batch, invoked, printed, mem>>

Goto(l) ==
    /\ pc' = l
    /\ UNCHANGED <<env, LOADED_SWAP, LOADED_AFTER_SWAP, batch, invoked, printed, outcome, mem>>

\* run
Run ==
    /\ pc = "idle"
    /\ Goto(IF env.bpf THEN "bpf_find" ELSE "native_find")
    /\ UNCHANGED <<poolVars, libVars>>

\* run_native: find_native_lib(crate_path)?
NativeFind ==
    /\ pc = "native_find"
    /\ IF env.file THEN Goto("native_load") ELSE Fail("Err: no native library")
    /\ UNCHANGED <<poolVars, libVars>>

\* run_native: Library::new(&native_path).map_err(..)?
NativeLoad ==
    /\ pc = "native_load"
    /\ IF env.load_ok THEN Goto("native_swap_symbol") ELSE Fail("Err: failed to load library")
    /\ UNCHANGED <<poolVars, libVars>>

\* a store that never reaches the static
Stored_lost(m, var, ptr, at) == m

\* LOADED_*.store(ptr, Ordering::Relaxed): one more entry in the atomic's
\* modification order, tagged with the ordering used and where it was made.
Stored(m, var, ptr, at) ==
    [m EXCEPT !.mo[var] = Append(@, [val |-> ptr, order |-> "Relaxed", at |-> at])]

\* The runner starts its worker threads: everything the calling thread stored
\* before happens-before each worker's first step.
Spawned(m) ==
    [m EXCEPT !.view = [v \in DOMAIN m.mo |-> Len(m.mo[v])], !.started = TRUE]

\* LOADED_*.load(Ordering::Relaxed) on a worker thread: the newest store that
\* happens-before the worker, or any later one.
Readable(m, var) == {m.mo[var][i].val : i \in m.view[var]..Len(m.mo[var])}

\* compute_swap_ffi looked up the way after_swap_ffi is: absence tolerated
SwapSymbol_tolerant ==
    /\ pc' = "native_after_symbol"
    /\ LOADED_SWAP' = IF env.has_swap THEN "compute_swap_ffi" ELSE LOADED_SWAP
    /\ mem' = IF env.has_swap
              THEN Stored(mem, "LOADED_SWAP", "compute_swap_ffi", pc)
              ELSE mem
    /\ UNCHANGED <<env, LOADED_AFTER_SWAP, batch, invoked, printed, outcome>>

\* run_native: lib.get(b"compute_swap_ffi").map_err(..)?; LOADED_SWAP.store(..)
SwapSymbol ==
    IF env.has_swap
    THEN /\ pc' = "native_after_symbol"
         /\ LOADED_SWAP' = "compute_swap_ffi"
         /\ mem' = Stored(mem, "LOADED_SWAP", "compute_swap_ffi", pc)
         /\ UNCHANGED <<env, LOADED_AFTER_SWAP, batch, invoked, printed, outcome>>
    ELSE Fail("Err: missing compute_swap_ffi")

NativeSwapSymbol ==
    /\ pc = "native_swap_symbol"
    /\ SwapSymbol
    /\ UNCHANGED <<poolVars, libVars>>

\* the thunk handed to the runner whether or not the symbol was found
submission_after_swap_always(has_after_swap) == "Some(dynamic_after_swap)"

\* run_native: the hook handed to the runner
submission_after_swap(has_after_swap) ==
    IF has_after_swap THEN "Some(dynamic_after_swap)" ELSE "None"

\* run_native: lib.get(b"after_swap_ffi"), the banner, and the call of
\* runner::run_default_batch_native
NativeStartBatch ==
    /\ pc = "native_after_symbol"
    /\ LET has_after_swap == env.has_after
       IN  /\ LOADED_AFTER_SWAP' =
                IF has_after_swap THEN "after_swap_ffi" ELSE LOADED_AFTER_SWAP
           /\ batch' = [fn |-> "run_default_batch_native", swap |-> "dynamic_swap",
                        after_swap |-> submission_after_swap(has_after_swap)]
           /\ mem' = Spawned(IF has_after_swap
                             THEN Stored(mem, "LOADED_AFTER_SWAP", "after_swap_ffi", pc)
                             ELSE mem)
    /\ printed' = Append(printed, "banner")
    /\ pc' = "batch"
    /\ UNCHANGED <<env, LOADED_SWAP, invoked, outcome>>
    /\ UNCHANGED <<poolVars, libVars>>

\* run_bpf: find_bpf_so(crate_path)?
BpfFind ==
    /\ pc = "bpf_find"
    /\ IF env.file THEN Goto("bpf_read") ELSE Fail("Err: no BPF .so")
    /\ UNCHANGED <<poolVars, libVars>>

\* run_bpf: std::fs::read(&bpf_path).map_err(..)?
BpfRead ==
    /\ pc = "bpf_read"
    /\ IF env.readable THEN Goto("bpf_load") ELSE Fail("Err: failed to read")
    /\ UNCHANGED <<poolVars, libVars>>

\* run_bpf: BpfProgram::load(&bytes).map_err(..)?
ProgramLoad ==
    IF env.load_ok THEN Goto("bpf_start") ELSE Fail("Err: failed to load BPF program")

BpfLoad ==
    /\ pc = "bpf_load"
    /\ ProgramLoad
    /\ UNCHANGED <<poolVars, libVars>>

\* run_bpf: the banner and the call of runner::run_default_batch_mixed
BpfStartBatch ==
    /\ pc = "bpf_start"
    /\ batch' = [fn |-> "run_default_batch_mixed", swap |-> "submission_program",
                 after_swap |-> "submission_program"]
    /\ mem' = Spawned(mem)
    /\ printed' = Append(printed, "banner")
    /\ pc' = "batch"
    /\ UNCHANGED <<env, LOADED_SWAP, LOADED_AFTER_SWAP, invoked, outcome>>
    /\ UNCHANGED <<poolVars, libVars>>

\* A thunk transmutes the pointer it loads and calls it.  Calling a null
\* pointer is undefined: the process may die there or carry on.
ThunkCall(w, thunk, ptr) ==
    /\ invoked' = Append(invoked, [w |-> w, thunk |-> thunk, ptr |-> ptr])
    /\ pc' \in (IF ptr = "null" THEN {"crashed", "batch"} ELSE {"batch"})
    /\ UNCHANGED <<env, LOADED_SWAP, LOADED_AFTER_SWAP, batch, printed, outcome, mem>>

\* dynamic_swap, called by a pool of the running batch
dynamic_swap ==
    /\ pc = "batch"
    /\ batch.swap = "dynamic_swap"
    /\ Len(invoked) < MaxCalls
    /\ \E w \in 1..NumWorkers, ptr \in Readable(mem, "LOADED_SWAP") :
          ThunkCall(w, "dynamic_swap", ptr)
    /\ UNCHANGED <<poolVars, libVars>>

\* NativeExecutor::execute_after_swap calls the hook it was built with, and
\* does nothing when it was built with None.
HookGiven == batch.after_swap = "Some(dynamic_after_swap)"

\* dynamic_after_swap, called by a pool of the running batch that was given it
dynamic_after_swap ==
    /\ pc = "batch"
    /\ HookGiven
    /\ Len(invoked) < MaxCalls
    /\ \E w \in 1..NumWorkers, ptr \in Readable(mem, "LOADED_AFTER_SWAP") :
          ThunkCall(w, "dynamic_after_swap", ptr)
    /\ UNCHANGED <<poolVars, libVars>>

\* The submission's BPF program, run by a pool of the running batch
BpfProgramCall ==
    /\ pc = "batch"
    /\ batch.swap = "submission_program"
    /\ Len(invoked) < MaxCalls
    /\ \E w \in 1..NumWorkers : ThunkCall(w, "submission_program", "program")
    /\ UNCHANGED <<poolVars, libVars>>

\* run_native / run_bpf: the batch returns; `?`, then output::print_results
BatchReturn ==
    /\ pc = "batch"
    /\ IF env.batch_ok
       THEN /\ printed' = Append(printed, "results")
            /\ outcome' = "Ok"
       ELSE /\ printed' = printed
            /\ outcome' = "Err: batch failed"
    /\ pc' = "done"
    /\ UNCHANGED <<env, LOADED_SWAP, LOADED_AFTER_SWAP, batch, invoked, mem>>
    /\ UNCHANGED <<poolVars, libVars>>

\* The process as main enters run(): statics null, nothing printed.
RunInit ==
    /\ pc = "idle"
    /\ env \in Envs
    /\ LOADED_SWAP = "null"
    /\ LOADED_AFTER_SWAP = "null"
    /\ batch = NoBatch
    /\ invoked = <<>>
    /\ printed = <<>>
    /\ outcome = "none"
    /\ mem = MemInit
    /\ LibIdle
    /\ backend = [kind |-> "Native", after_swap_fn |-> FALSE, noop |-> FALSE]
    /\ reserve_x = 0
    /\ reserve_y = 0
    /\ storage = VecZero(STORAGE_SIZE)
    /\ last = NoOp

RunNext ==
    \/ Run
    \/ NativeFind \/ NativeLoad \/ NativeSwapSymbol \/ NativeStartBatch
    \/ BpfFind \/ BpfRead \/ BpfLoad \/ BpfStartBatch
    \/ dynamic_swap \/ dynamic_after_swap \/ BpfProgramCall
    \/ BatchReturn

RunSpec == RunInit /\ [][RunNext]_vars

----------------------------------------------------------------------------
(* Properties of the pool *)

QuoteOps == {"quote_buy_x", "quote_sell_x"}
ExecOps  == {"execute_buy_x", "execute_sell_x"}

CallsOf(l, f) == {i \in DOMAIN l.calls : l.calls[i].fn = f}

PoolUnchanged ==
    reserve_x' = reserve_x /\ reserve_y' = reserve_y /\ storage' = storage

\* C1: a quote or execute with input <= 0 returns 0, makes no executor call
\* (neither swap nor after-swap) and leaves reserves and storage as they were.
C1_ZeroInput ==
    [][(last'.op \in QuoteOps \cup ExecOps /\ last'.input <= 0)
          => /\ last'.ret = 0
             /\ last'.calls = <<>>
             /\ PoolUnchanged]_vars

C1_Witness ==
    /\ last.op = "execute_buy_x"
    /\ last.input = 0
    /\ reserve_x > 0
    /\ ~AllZero(storage)

\* C2: an execute whose quote is > 0 calls the after-swap hook exactly once,
\* after the reserve update, with the nano conversion of the updated reserves.
C2_AfterSwapSeesPostUpdate ==
    (last.op \in ExecOps /\ last.ret > 0)
       => /\ Cardinality(CallsOf(last, "after_swap")) = 1
          /\ Cardinality(CallsOf(last, "update")) = 1
          /\ \A i \in CallsOf(last, "after_swap") :
                /\ \A j \in CallsOf(last, "update") :
                      /\ j < i
                      /\ last.calls[j].reserve_x = reserve_x
                      /\ last.calls[j].reserve_y = reserve_y
                /\ last.calls[i].rx = f64_to_nano(reserve_x)
                /\ last.calls[i].ry = f64_to_nano(reserve_y)

\* The hook saw a reserve pair that differs from the one the swap call saw.
C2_Witness ==
    /\ last.op = "execute_buy_x"
    /\ last.ret > 0
    /\ Len(last.calls) = 3
    /\ last.calls[3].rx # last.calls[1].rx
    /\ last.calls[3].ry # last.calls[1].ry

\* C3: the reserves change only in a reset or in an execute whose quote is
\* > 0; an execute whose swap call returns 0 leaves reserves and storage as
\* they were and makes no after-swap call.
C3_UpdateOnlyOnPositiveQuote ==
    [][/\ (last'.op \in ExecOps /\ last'.ret = 0)
            => (PoolUnchanged /\ CallsOf(last', "after_swap") = {})
       /\ (reserve_x' # reserve_x \/ reserve_y' # reserve_y)
            => (last'.op = "reset" \/ (last'.op \in ExecOps /\ last'.ret > 0))]_vars

\* A swap call was made on a pool with a zero reserve and returned 0.
C3_Witness ==
    /\ last.op = "execute_buy_x"
    /\ last.ret = 0
    /\ Len(last.calls) = 1
    /\ last.calls[1].rx = 0
    /\ reserve_y > 0
    /\ ~AllZero(storage)

\* C4: the reserves are never negative.
C4_ReservesNonNegative == reserve_x >= 0 /\ reserve_y >= 0

\* C5: reset(rx, ry) leaves all storage bytes zero, the reserves equal to
\* (rx, ry), and the bound executor as it was.
C5_Reset ==
    [][last'.op = "reset"
          => /\ AllZero(storage')
             /\ storage'.len = STORAGE_SIZE
             /\ reserve_x' = last'.rx
             /\ reserve_y' = last'.ry
             /\ backend' = backend]_vars

\* A reset of a pool whose storage held a non-zero byte.
C5_Witness ==
    /\ last.op = "reset"
    /\ last.cleared > 0
    /\ last.rx = 3
    /\ last.ry = 0

\* C6: a new pool has all-zero storage, and the storage is STORAGE_SIZE
\* bytes long in every reachable state.
C6_StorageLength ==
    /\ storage.len = STORAGE_SIZE
    /\ DOMAIN storage.nz \subseteq 1..STORAGE_SIZE
    /\ last.op = "new" => (AllZero(storage) /\ reserve_x \in InitReserves
                                           /\ reserve_y \in InitReserves)

\* A pool that was written by a hook and then reset.
C6_Witness ==
    /\ last.op = "reset"
    /\ last.cleared > 0
    /\ storage.len = STORAGE_SIZE

\* C7: quotes change neither storage nor reserves; storage changes only in a
\* reset or in an execute that called the after-swap hook; every swap call is
\* handed the pool's storage as the previous operation left it.
C7_StorageFrame ==
    [][/\ last'.op \in QuoteOps => PoolUnchanged
       /\ storage' # storage
            => (last'.op = "reset" \/ CallsOf(last', "after_swap") # {})
       /\ \A i \in CallsOf(last', "swap") : last'.calls[i].storage = storage]_vars

\* A swap call that read a byte an earlier after-swap call wrote.
C7_Witness ==
    /\ last.op = "quote_sell_x"
    /\ Len(last.calls) = 1
    /\ ByteAt(last.calls[1].storage, STORAGE_SIZE) = 255
    /\ storage = last.calls[1].storage

\* C8: on the BPF backend a failed swap call makes the quote 0 and leaves the
\* pool as it was; a failed after-swap call is dropped: the reserve update
\* stays and execute returns the quote.
C8_BpfErrorsRecovered ==
    [][/\ \A i \in CallsOf(last', "swap") :
             ~last'.calls[i].ok
                => (last'.ret = 0 /\ Len(last'.calls) = 1 /\ PoolUnchanged)
       /\ \A i \in CallsOf(last', "after_swap") :
             ~last'.calls[i].ok
                => /\ last'.ret = nano_to_f64(last'.calls[i].output)
                   /\ last'.ret > 0
                   /\ last'.op = "execute_buy_x"
                        => /\ reserve_x' = F64Sub(reserve_x, last'.ret)
                           /\ reserve_y' = F64Add(reserve_y, last'.input)
                   /\ last'.op = "execute_sell_x"
                        => /\ reserve_x' = F64Add(reserve_x, last'.input)
                           /\ reserve_y' = F64Sub(reserve_y, last'.ret)]_vars

\* A failed after-swap call after a swap that moved the reserves.
C8_Witness ==
    /\ backend.kind = "Bpf"
    /\ last.op = "execute_sell_x"
    /\ Len(last.calls) = 3
    /\ ~last.calls[3].ok
    /\ reserve_x > 0

----------------------------------------------------------------------------
(* Properties of run() *)

\* The load of the submission fails somewhere.
LoadFails ==
    IF env.bpf
    THEN ~env.file \/ ~env.readable \/ ~env.load_ok
    ELSE ~env.file \/ ~env.load_ok \/ ~env.has_swap

Elems(q) == {q[i] : i \in DOMAIN q}

\* C9: when the load fails, run() returns a load error, no runner batch
\* function is ever called and no result is printed.
C9_LoadErrorsSurface ==
    LoadFails
       => /\ batch.fn = "none"
          /\ invoked = <<>>
          /\ "results" \notin Elems(printed)
          /\ pc \notin {"batch", "crashed"}
          /\ pc = "done" => outcome \in LoadErrors

\* run_native returned because compute_swap_ffi is missing from a library
\* that loaded.
C9_Witness ==
    /\ pc = "done"
    /\ ~env.bpf /\ env.file /\ env.load_ok /\ ~env.has_swap
    /\ outcome = "Err: missing compute_swap_ffi"

\* C10: a library without after_swap_ffi still loads and its batch runs with
\* the hook absent; dynamic_after_swap is handed to the runner only with
\* LOADED_AFTER_SWAP stored, and no thunk ever calls a null pointer.
C10_AbsentAfterSwapIsNoOp ==
    /\ (~env.bpf /\ ~LoadFails /\ ~env.has_after)
          => /\ pc \notin {"crashed"}
             /\ batch.fn # "none" => batch.after_swap = "None"
             /\ \A i \in DOMAIN invoked : invoked[i].thunk # "dynamic_after_swap"
             /\ pc = "done" => outcome \in {"Ok", "Err: batch failed"}
    /\ (batch.fn # "none" /\ batch.after_swap = "Some(dynamic_after_swap)")
          => LOADED_AFTER_SWAP = "after_swap_ffi"
    /\ \A i \in DOMAIN invoked : invoked[i].ptr # "null"

\* A batch over a library without after_swap_ffi ran to the end.
C10_Witness ==
    /\ pc = "done"
    /\ ~env.bpf /\ ~env.has_after
    /\ outcome = "Ok"
    /\ Len(invoked) = MaxCalls
    /\ LOADED_AFTER_SWAP = "null"
    /\ "results" \in Elems(printed)

\* Stores made to an atomic after its static initialisation.
StoresTo(var) == {mem.mo[var][i] : i \in 2..Len(mem.mo[var])}
Atomics == {"LOADED_SWAP", "LOADED_AFTER_SWAP"}

\* Each pointer is stored at most once, before the batch is started, and the
\* workers are never behind a store; every thunk invocation calls the pointer
\* run_native stored, on whichever worker it runs.
PublishedBeforeWorkers ==
    /\ \A v \in Atomics :
          /\ Len(mem.mo[v]) <= 2
          /\ \A e \in StoresTo(v) : e.at \in {"native_swap_symbol", "native_after_symbol"}
          /\ mem.started => mem.view[v] = Len(mem.mo[v])
    /\ LOADED_SWAP = mem.mo["LOADED_SWAP"][Len(mem.mo["LOADED_SWAP"])].val
    /\ LOADED_AFTER_SWAP = mem.mo["LOADED_AFTER_SWAP"][Len(mem.mo["LOADED_AFTER_SWAP"])].val
    /\ invoked # <<>> => mem.started
    /\ \A i \in DOMAIN invoked :
          /\ invoked[i].thunk = "dynamic_swap"
                => (invoked[i].ptr = "compute_swap_ffi" /\ invoked[i].ptr = LOADED_SWAP)
          /\ invoked[i].thunk = "dynamic_after_swap"
                => (invoked[i].ptr = "after_swap_ffi" /\ invoked[i].ptr = LOADED_AFTER_SWAP)

\* C11 as stated: the pointers are published with release ordering, before
\* the workers run, and every thunk invocation observes the stored pointer.
C11_ReleasePublished ==
    /\ \A v \in Atomics : \A e \in StoresTo(v) : e.order \in {"Release", "AcqRel", "SeqCst"}
    /\ PublishedBeforeWorkers

\* C11 (amended): the pointers are stored with Relaxed ordering, once each and
\* before the batch is started; the start of the worker threads is what orders
\* the stores before every thunk invocation, which observes the stored
\* non-null pointer; no store is made while workers run.
C11_RelaxedPublishedBeforeSpawn ==
    /\ \A v \in Atomics : \A e \in StoresTo(v) : e.order = "Relaxed"
    /\ PublishedBeforeWorkers

\* Both thunks were invoked, on different workers, after both stores.
C11_Witness ==
    /\ Len(invoked) = 2
    /\ invoked[1].w # invoked[2].w
    /\ invoked[1].thunk = "dynamic_after_swap"
    /\ invoked[2].thunk = "dynamic_swap"
    /\ StoresTo("LOADED_SWAP") # {}
    /\ StoresTo("LOADED_AFTER_SWAP") # {}

----------------------------------------------------------------------------
(* The starter strategy (sim/tests/integration.rs) *)

\* u64::MAX scaled down for the strategy's own arithmetic; u128 is twice as
\* wide, and the width leaves room for the fee constants as 64 bits do.
StarterU64Max  == 1023
StarterU128Max == (StarterU64Max + 1) * (StarterU64Max + 1) - 1
SmallAmounts   == 24    \* inputs 0..SmallAmounts are all tried

\* u64::to_le_bytes / u64::from_le_bytes
RECURSIVE LeBytes(_, _)
LeBytes(n, len) == IF len = 0 THEN <<>> ELSE <<n % 256>> \o LeBytes(n \div 256, len - 1)

RECURSIVE FromLeBytes(_)
FromLeBytes(b) == IF b = <<>> THEN 0 ELSE b[1] + 256 * FromLeBytes(Tail(b))

\* The 25-byte swap request: side, input, reserve_x, reserve_y, little endian.
SwapRequest(side, amount, rx, ry) ==
    <<side>> \o LeBytes(amount, 8) \o LeBytes(rx, 8) \o LeBytes(ry, 8)

\* u128::saturating_mul and saturating_sub, with whether they saturated
SatMul(a, b) ==
    IF b # 0 /\ a > StarterU128Max \div b
    THEN [v |-> StarterU128Max, sat |-> TRUE]
    ELSE [v |-> a * b, sat |-> FALSE]

SatSub(a, b) == IF a < b THEN [v |-> 0, sat |-> TRUE] ELSE [v |-> a - b, sat |-> FALSE]

\* + carried out in 64 bits instead of 128
WrapAdd_u64(a, b) ==
    [v |-> (a + b) % (StarterU64Max + 1), wrapped |-> a + b > StarterU64Max]

\* u128 + and -: the value a release build leaves, and whether it wrapped
WrapAdd(a, b) ==
    [v |-> (a + b) % (StarterU128Max + 1), wrapped |-> a + b > StarterU128Max]

WrapSub(a, b) ==
    [v |-> (a - b) % (StarterU128Max + 1), wrapped |-> a < b]

\* One arm of starter_swap's match: the fee, the new reserve on the input
\* side, the ceiling division and the subtraction from the output reserve.
StarterArm(input_amount, reserve_in, reserve_out, k) ==
    LET net    == SatMul(input_amount, 950)
        new_in == WrapAdd(reserve_in, net.v \div 1000)
        num1   == WrapAdd(k.v, new_in.v)
        num    == WrapSub(num1.v, 1)
        keep   == IF new_in.v = 0 THEN 0 ELSE num.v \div new_in.v
        out    == SatSub(reserve_out, keep)
    IN  [out     |-> out.v % (StarterU64Max + 1),
         wrapped |-> new_in.wrapped \/ num1.wrapped \/ num.wrapped
                       \/ out.v > StarterU64Max \/ new_in.v = 0,
         sat     |-> net.sat \/ k.sat \/ out.sat]

\* starter_swap with the fee taken from the output reserve's side
StarterEval_swapped(data) ==
    IF Len(data) < 25
    THEN [out |-> 0, wrapped |-> FALSE, sat |-> FALSE]
    ELSE LET side         == data[1]
             input_amount == FromLeBytes(SubSeq(data, 2, 9))
             rx           == FromLeBytes(SubSeq(data, 10, 17))
             ry           == FromLeBytes(SubSeq(data, 18, 25))
             k            == SatMul(rx, ry)
         IN  IF rx = 0 \/ ry = 0
             THEN [out |-> 0, wrapped |-> FALSE, sat |-> FALSE]
             ELSE IF side = 0 THEN StarterArm(input_amount, rx, ry, k)
             ELSE IF side = 1 THEN StarterArm(input_amount, ry, rx, k)
             ELSE [out |-> 0, wrapped |-> FALSE, sat |-> FALSE]

\* starter_swap: the output, and whether any step wrapped or saturated
StarterEval(data) ==
    IF Len(data) < 25
    THEN [out |-> 0, wrapped |-> FALSE, sat |-> FALSE]
    ELSE LET side         == data[1]
             input_amount == FromLeBytes(SubSeq(data, 2, 9))
             rx           == FromLeBytes(SubSeq(data, 10, 17))
             ry           == FromLeBytes(SubSeq(data, 18, 25))
             k            == SatMul(rx, ry)
         IN  IF rx = 0 \/ ry = 0
             THEN [out |-> 0, wrapped |-> FALSE, sat |-> FALSE]
             ELSE IF side = 0 THEN StarterArm(input_amount, ry, rx, k)
             ELSE IF side = 1 THEN StarterArm(input_amount, rx, ry, k)
             ELSE [out |-> 0, wrapped |-> FALSE, sat |-> FALSE]

starter_swap(data) == StarterEval(data).out

StarterSides    == {0, 1, 2, 255}
StarterReserves == {0, 1, 2, 3, 10, 100, StarterU64Max}
StarterAmounts  == (0..SmallAmounts) \cup {StarterU64Max - 1, StarterU64Max}
RequestLens     == {24, 25}

\* NativeExecutor::execute(side, amount, rx, ry, storage) on the starter: the
\* request is serialised and handed to starter_swap.  len < 25 is a request
\* cut short.
StarterCall ==
    /\ \E amount \in StarterAmounts, len \in RequestLens :
          LET data == SubSeq(SwapRequest(sw.side, amount, sw.rx, sw.ry), 1, len)
              r    == StarterEval(data)
          IN  sw' = [phase |-> "called", side |-> sw.side, rx |-> sw.rx, ry |-> sw.ry,
                     amount |-> amount, len |-> len, out |-> starter_swap(data),
                     wrapped |-> r.wrapped, sat |-> r.sat]
    /\ UNCHANGED <<poolVars, runVars, sim, runner, sdk>>

StarterInit ==
    /\ \E side \in StarterSides, rx \in StarterReserves, ry \in StarterReserves :
          sw = [phase |-> "ready", side |-> side, rx |-> rx, ry |-> ry,
                amount |-> 0, len |-> 25, out |-> 0, wrapped |-> FALSE, sat |-> FALSE]
    /\ backend = [kind |-> "Native", after_swap_fn |-> TRUE, noop |-> FALSE]
    /\ reserve_x = 0
    /\ reserve_y = 0
    /\ storage = VecZero(STORAGE_SIZE)
    /\ last = NoOp
    /\ RunIdle
    /\ sim = NoSim
    /\ runner = NoRunner
    /\ sdk = NoSdk

StarterNext == StarterCall

StarterSpec == StarterInit /\ [][StarterNext]_vars

\* C14: for a fixed side and fixed reserves, the starter's output does not
\* decrease when the input grows.
C14_StarterMonotone ==
    [][(sw.phase = "called" /\ sw.len = 25 /\ sw'.len = 25 /\ sw.amount <= sw'.amount)
          => sw.out <= sw'.out]_vars

\* A larger input bought strictly more, at the largest reserves.
C14_Witness ==
    /\ sw.phase = "called"
    /\ sw.len = 25
    /\ sw.side = 1
    /\ sw.rx = StarterU64Max /\ sw.ry = StarterU64Max
    /\ sw.amount = StarterU64Max
    /\ sw.out > 100

\* C18: the starter returns 0 on a request shorter than 25 bytes, on a zero
\* reserve and on a side other than 0 and 1; otherwise its output is below
\* the reserve it is paid from, and nothing in the computation wraps,
\* saturates or is truncated.
C18_StarterNeverDrains ==
    sw.phase = "called"
       => IF sw.len < 25 \/ sw.rx = 0 \/ sw.ry = 0 \/ sw.side \notin {0, 1}
          THEN sw.out = 0
          ELSE /\ sw.out < (IF sw.side = 0 THEN sw.rx ELSE sw.ry)
               /\ ~sw.wrapped
               /\ ~sw.sat

\* The largest input against the largest reserves.
C18_Witness ==
    /\ sw.phase = "called"
    /\ sw.len = 25
    /\ sw.side = 0
    /\ sw.rx = StarterU64Max /\ sw.ry = StarterU64Max
    /\ sw.amount = StarterU64Max
    /\ sw.out > 0

----------------------------------------------------------------------------
(* Two simulations of one config, one after the other in one process *)

MaxSteps == 3    \* n_steps of a config is 2..MaxSteps
NumSeeds == 4    \* seeds 0..NumSeeds-1

\* A strategy that keeps state: its last storage byte records that a trade
\* has happened, and it quotes more before the first trade than after.
stateful_swap(data, st) ==
    LET side         == data[1]
        input_amount == FromLeBytes(SubSeq(data, 2, 9))
        rx           == FromLeBytes(SubSeq(data, 10, 17))
        ry           == FromLeBytes(SubSeq(data, 18, 25))
        q            == IF ByteAt(st, st.len) = 0 THEN 2 ELSE 1
    IN  IF input_amount = 0 THEN 0
        ELSE IF side = 0 THEN Min(q, rx)
        ELSE Min(q, ry)

stateful_after_swap(data, st) == WriteByte(st, st.len, 255)

Strategies == {"starter", "stateful"}

\* NativeExecutor::execute / execute_after_swap on the strategy's functions
StrategySwap(strat, data, st) ==
    IF strat = "starter" THEN starter_swap(data) ELSE stateful_swap(data, st)

StrategyAfterSwap(strat, data, st) ==
    IF strat = "starter" THEN starter_after_swap(data, st) ELSE stateful_after_swap(data, st)

\* The 41-byte after-swap request
AfterSwapRequest(side, input_amount, output_amount, rx, ry) ==
    <<side>> \o LeBytes(input_amount, 8) \o LeBytes(output_amount, 8)
             \o LeBytes(rx, 8) \o LeBytes(ry, 8)

SimConfigs ==
    [n_steps : 2..MaxSteps, seed : 0..(NumSeeds - 1), rx : {4, MaxReserve}, ry : {0, 2}]

\* The engine's PRNG: one stream per simulation, seeded from the config.
PrngNext(s) == (5 * s + 3) % 8
RetailSide(s) == s % 2
RetailSize(s) == IF (s \div 2) % 2 = 0 THEN 2 ELSE 1

\* A pool built over the buffer the previous pool left behind
new_native_dirty(rx, ry) ==
    [backend |-> [kind |-> "Native", after_swap_fn |-> TRUE, noop |-> FALSE],
     reserve_x |-> rx, reserve_y |-> ry, storage |-> storage]

\* BpfAmm::new_native
new_native(rx, ry) ==
    [backend |-> [kind |-> "Native", after_swap_fn |-> TRUE, noop |-> FALSE],
     reserve_x |-> rx, reserve_y |-> ry, storage |-> VecZero(STORAGE_SIZE)]

NoResult == [phase |-> "idle", run |-> 0, strat |-> "none",
             cfg |-> [n_steps |-> 0, seed |-> 0, rx |-> 0, ry |-> 0],
             step |-> 0, rng |-> 0, edge |-> 0, results |-> <<>>]

\* run_simulation_native: the pool is constructed and the PRNG seeded.
SimStart ==
    /\ sim.phase \in {"ready", "between"}
    /\ LET p == new_native(sim.cfg.rx, sim.cfg.ry)
       IN  /\ backend' = p.backend
           /\ reserve_x' = p.reserve_x
           /\ reserve_y' = p.reserve_y
           /\ storage' = p.storage
    /\ last' = NoOp
    /\ sim' = [sim EXCEPT !.phase = "running", !.run = sim.run + 1, !.step = 0,
                          !.rng = sim.cfg.seed, !.edge = 0]
    /\ UNCHANGED <<runVars, runner, sw, sdk>>

\* One step: a retail order drawn from the stream and applied to the pool.
SimStep ==
    /\ sim.phase = "running"
    /\ sim.step < sim.cfg.n_steps
    /\ LET side  == RetailSide(sim.rng)
           input == RetailSize(sim.rng)
           data  == SwapRequest(side, f64_to_nano(input), f64_to_nano(reserve_x),
                                f64_to_nano(reserve_y))
           val   == StrategySwap(sim.strat, data, storage)
           res   == [ok |-> TRUE, val |-> val]
           out   == nano_to_f64(val)
           hdata == IF side = 0
                    THEN AfterSwapRequest(0, f64_to_nano(input), f64_to_nano(out),
                                          f64_to_nano(F64Sub(reserve_x, out)),
                                          f64_to_nano(F64Add(reserve_y, input)))
                    ELSE AfterSwapRequest(1, f64_to_nano(input), f64_to_nano(out),
                                          f64_to_nano(F64Add(reserve_x, input)),
                                          f64_to_nano(F64Sub(reserve_y, out)))
           hk    == [ok |-> TRUE, st |-> StrategyAfterSwap(sim.strat, hdata, storage)]
       IN  /\ IF side = 0 THEN ExecuteBuyX(input, res, hk) ELSE ExecuteSellX(input, res, hk)
           /\ sim' = [sim EXCEPT !.step = sim.step + 1, !.rng = PrngNext(sim.rng),
                                 !.edge = IF last'.ret > 0
                                          THEN F64Add(sim.edge, F64Sub(input, last'.ret))
                                          ELSE sim.edge]
    /\ UNCHANGED <<backend, runVars, runner, sw, sdk>>

\* The simulation returns its result; the pool is dropped.
SimFinish ==
    /\ sim.phase = "running"
    /\ sim.step = sim.cfg.n_steps
    /\ sim' = [sim EXCEPT !.phase = IF sim.run = 1 THEN "between" ELSE "done",
                          !.results = Append(sim.results,
                                             [submission_edge |-> sim.edge,
                                              trades_seen |-> ~AllZero(storage)])]
    /\ UNCHANGED <<poolVars, runVars, runner, sw, sdk>>

SimInit ==
    /\ \E cfg \in SimConfigs, strat \in Strategies :
          sim = [NoResult EXCEPT !.phase = "ready", !.cfg = cfg, !.strat = strat]
    /\ backend = [kind |-> "Native", after_swap_fn |-> TRUE, noop |-> FALSE]
    /\ reserve_x = 0
    /\ reserve_y = 0
    /\ storage = VecZero(STORAGE_SIZE)
    /\ last = NoOp
    /\ RunIdle
    /\ runner = NoRunner
    /\ sw = NoSw
    /\ sdk = NoSdk

SimNext == SimStart \/ SimStep \/ SimFinish

SimSpec == SimInit /\ [][SimNext]_vars

----------------------------------------------------------------------------
(* The parallel batch runner *)

MaxConfigs == 3    \* a batch has 0..MaxConfigs configs

BatchSeeds == {0, 1}

\* One full simulation of a config; its result is determined by the config.
run_simulation(cfg) == [of_seed |-> cfg.seed, submission_edge |-> 2 * cfg.seed + 1]

RECURSIVE Concat(_, _)
Concat(locals, w) == IF w = 0 THEN <<>> ELSE Concat(locals, w - 1) \o locals[w]

\* The entry of index i among the workers' local vectors
EntryOf(all, i) == all[CHOOSE j \in 1..Len(all) : all[j].idx = i]

\* The local vectors joined worker by worker, in the order they hold
MergeResults_unsorted(locals, K) ==
    LET all == Concat(locals, K)
    IN  [i \in 1..Len(all) |-> all[i].result]

\* The local vectors merged in original config index order
MergeResults(locals, K) ==
    LET all == Concat(locals, K)
    IN  [i \in 1..Len(all) |-> EntryOf(all, i).result]

NoBatchRun == [phase |-> "idle", K |-> 0, configs |-> <<>>, queue |-> <<>>,
               busy |-> <<>>, locals |-> <<>>, completed |-> <<>>, results |-> <<>>]

\* run_batch_native: the configs are pushed to the queue by index and the K
\* workers are started.
BatchStart ==
    /\ runner.phase = "ready"
    /\ runner' = [runner EXCEPT !.phase = "running",
                                !.queue = [i \in 1..Len(runner.configs) |-> i],
                                !.busy = [w \in 1..runner.K |-> 0],
                                !.locals = [w \in 1..runner.K |-> <<>>]]
    /\ UNCHANGED <<poolVars, runVars, sim, sw, sdk>>

\* A free worker takes the next config off the queue.
Dequeue ==
    /\ runner.phase = "running"
    /\ runner.queue # <<>>
    /\ \E w \in 1..runner.K :
          /\ runner.busy[w] = 0
          /\ runner' = [runner EXCEPT !.busy[w] = Head(runner.queue),
                                      !.queue = Tail(runner.queue)]
    /\ UNCHANGED <<poolVars, runVars, sim, sw, sdk>>

\* A worker finishes its simulation and appends the result to its own vector.
Complete ==
    /\ runner.phase = "running"
    /\ \E w \in 1..runner.K :
          /\ runner.busy[w] # 0
          /\ LET i == runner.busy[w]
             IN  runner' = [runner EXCEPT
                               !.busy[w] = 0,
                               !.locals[w] = Append(runner.locals[w],
                                    [idx |-> i, result |-> run_simulation(runner.configs[i])]),
                               !.completed = Append(runner.completed, i)]
    /\ UNCHANGED <<poolVars, runVars, sim, sw, sdk>>

\* All workers have drained the queue: the results are merged and returned.
Merge ==
    /\ runner.phase = "running"
    /\ runner.queue = <<>>
    /\ \A w \in 1..runner.K : runner.busy[w] = 0
    /\ runner' = [runner EXCEPT !.phase = "merged",
                                !.results = MergeResults(runner.locals, runner.K)]
    /\ UNCHANGED <<poolVars, runVars, sim, sw, sdk>>

\* BatchResult::n_sims
n_sims == Len(runner.results)

BatchInit ==
    /\ \E K \in 1..NumWorkers, N \in 0..MaxConfigs :
          \E seeds \in [1..N -> BatchSeeds] :
             runner = [NoBatchRun EXCEPT !.phase = "ready", !.K = K,
                                         !.configs = [i \in 1..N |-> [seed |-> seeds[i]]]]
    /\ backend = [kind |-> "Native", after_swap_fn |-> TRUE, noop |-> FALSE]
    /\ reserve_x = 0
    /\ reserve_y = 0
    /\ storage = VecZero(STORAGE_SIZE)
    /\ last = NoOp
    /\ RunIdle
    /\ sim = NoSim
    /\ sw = NoSw
    /\ sdk = NoSdk

BatchNext == BatchStart \/ Dequeue \/ Complete \/ Merge

BatchSpec == BatchInit /\ [][BatchNext]_vars

\* C13: whatever the worker count and the interleaving, the merged batch has
\* one result per config, and result i is the result of configs[i].
C13_BatchInConfigOrder ==
    runner.phase = "merged"
       => /\ n_sims = Len(runner.configs)
          /\ \A i \in 1..Len(runner.configs) :
                runner.results[i] = run_simulation(runner.configs[i])

\* A batch of two workers merged after its simulations completed out of
\* index order, over configs whose results differ.
C13_Witness ==
    /\ runner.phase = "merged"
    /\ runner.K = NumWorkers
    /\ Len(runner.configs) = MaxConfigs
    /\ runner.completed[1] # 1
    /\ runner.configs[1].seed # runner.configs[2].seed
    /\ runner.locals[1] # <<>>
    /\ runner.locals[2] # <<>>

----------------------------------------------------------------------------
(* The submission SDK *)

MaxSdkCalls == 2    \* set_storage calls of one program run

Targets == {"solana", "host"}    \* cfg(target_os = "solana") or not

SdkLens == {0, 1, 2, STORAGE_SIZE \div 2, STORAGE_SIZE - 2, STORAGE_SIZE - 1, STORAGE_SIZE,
            STORAGE_SIZE + 1, STORAGE_SIZE + 2, 2 * STORAGE_SIZE}

\* set_storage rejecting a full-size buffer as well
set_storage_ge(target, len) ==
    IF len >= STORAGE_SIZE
    THEN [ret |-> "Err(TooLarge)", syscall |-> <<>>]
    ELSE [ret     |-> "Ok",
          syscall |-> IF target = "solana"
                      THEN <<[fn |-> "sol_set_storage", length |-> len]>>
                      ELSE <<>>]

\* set_storage(&buf) with buf.len() = len: its Result and the syscall it makes
set_storage(target, len) ==
    IF len > STORAGE_SIZE
    THEN [ret |-> "Err(TooLarge)", syscall |-> <<>>]
    ELSE [ret     |-> "Ok",
          syscall |-> IF target = "solana"
                      THEN <<[fn |-> "sol_set_storage", length |-> len]>>
                      ELSE <<>>]

SetStorage ==
    /\ sdk.calls < MaxSdkCalls
    /\ \E len \in SdkLens :
          LET r == set_storage(sdk.target, len)
          IN  sdk' = [phase |-> "called", target |-> sdk.target, len |-> len,
                      calls |-> sdk.calls + 1,
                      ret |-> r.ret, wrote |-> r.syscall # <<>>,
                      syscalls |-> sdk.syscalls \o r.syscall]
    /\ UNCHANGED <<poolVars, runVars, sim, runner, sw>>

SdkInit ==
    /\ \E target \in Targets :
          sdk = [phase |-> "ready", target |-> target, len |-> 0, ret |-> "none",
                 calls |-> 0,
                 wrote |-> FALSE, syscalls |-> <<>>]
    /\ backend = [kind |-> "Bpf", after_swap_fn |-> TRUE, noop |-> FALSE]
    /\ reserve_x = 0
    /\ reserve_y = 0
    /\ storage = VecZero(STORAGE_SIZE)
    /\ last = NoOp
    /\ RunIdle
    /\ sim = NoSim
    /\ runner = NoRunner
    /\ sw = NoSw

SdkNext == SetStorage

SdkSpec == SdkInit /\ [][SdkNext]_vars

\* C15: set_storage returns Err(TooLarge) exactly for lengths above 1024 and
\* then makes no storage write; for lengths 0..1024 it returns Ok(()), and
\* every write it makes is of at most 1024 bytes.
C15_SetStorageTooLarge ==
    sdk.phase = "called"
       => /\ (sdk.ret = "Err(TooLarge)") <=> (sdk.len > 1024)
          /\ (sdk.ret = "Ok") <=> (sdk.len <= 1024)
          /\ sdk.ret = "Err(TooLarge)" => ~sdk.wrote
          /\ \A i \in 1..Len(sdk.syscalls) : sdk.syscalls[i].length <= 1024

\* A buffer of exactly 1024 bytes accepted and written on the solana target,
\* after which one of 1025 bytes would be the next call.
C15_Witness ==
    /\ sdk.phase = "called"
    /\ sdk.target = "solana"
    /\ sdk.len = 1024
    /\ sdk.ret = "Ok"
    /\ sdk.wrote

\* A buffer of 1025 bytes refused after an accepted write.
C15_WitnessRefused ==
    /\ sdk.phase = "called"
    /\ sdk.len = 1025
    /\ sdk.ret = "Err(TooLarge)"
    /\ Len(sdk.syscalls) = 1

----------------------------------------------------------------------------
(* The trade an execute applies *)

\* The execute just made obtained its return value as the quote of its input
\* on the reserves and storage it started from.
QuoteReturned ==
    \E res \in SwapResults(backend) :
       LET q == IF last'.op = "execute_buy_x"
                THEN quote_buy_x(last'.input, res)
                ELSE quote_sell_x(last'.input, res)
       IN  /\ q.ret = last'.ret
           /\ q.calls # <<>>
           /\ last'.calls[1] = q.calls[1]

\* The after-swap hook was called with this side and the nano conversions of
\* the execute's input and output.
HookSaw(side) ==
    /\ CallsOf(last', "after_swap") # {}
    /\ \A i \in CallsOf(last', "after_swap") :
          /\ last'.calls[i].side = side
          /\ last'.calls[i].input = f64_to_nano(last'.input)
          /\ last'.calls[i].output = f64_to_nano(last'.ret)

\* C16 as stated: the reserves move by exactly the quote and the full input.
C16_ExactDeltas ==
    [][/\ (last'.op = "execute_buy_x" /\ last'.ret > 0)
            => /\ QuoteReturned
               /\ reserve_x' = reserve_x - last'.ret
               /\ reserve_y' = reserve_y + last'.input
               /\ HookSaw(0)
       /\ (last'.op = "execute_sell_x" /\ last'.ret > 0)
            => /\ QuoteReturned
               /\ reserve_x' = reserve_x + last'.input
               /\ reserve_y' = reserve_y - last'.ret
               /\ HookSaw(1)]_vars

\* C16: an execute with quote q > 0 returns q; execute_buy_x sets reserve_x
\* to the f64 difference reserve_x - q and reserve_y to the f64 sum
\* reserve_y + input_y, execute_sell_x sets reserve_x to the f64 sum
\* reserve_x + input_x and reserve_y to the f64 difference reserve_y - q,
\* each rounded to the nearest f64; the hook receives the side (0 buy, 1
\* sell) and the nano conversions of the input and of q.
C16_RoundedDeltas ==
    [][/\ (last'.op = "execute_buy_x" /\ last'.ret > 0)
            => /\ QuoteReturned
               /\ reserve_x' = F64Sub(reserve_x, last'.ret)
               /\ reserve_y' = F64Add(reserve_y, last'.input)
               /\ HookSaw(0)
       /\ (last'.op = "execute_sell_x" /\ last'.ret > 0)
            => /\ QuoteReturned
               /\ reserve_x' = F64Add(reserve_x, last'.input)
               /\ reserve_y' = F64Sub(reserve_y, last'.ret)
               /\ HookSaw(1)]_vars

\* A sell whose input was absorbed by the rounding of reserve_x: the
\* reserve is where an exact sum cannot be.
C16_Witness ==
    /\ last.op = "execute_sell_x"
    /\ last.ret > 0
    /\ last.input = 1
    /\ reserve_x = 4
    /\ \E i \in CallsOf(last, "update") : last.calls[i].reserve_x = reserve_x
    /\ \E i \in CallsOf(last, "swap") : last.calls[i].rx = f64_to_nano(4)

----------------------------------------------------------------------------
(* Pools whose hook writes nothing *)

\* C17: on a pool whose after-swap hook is a no-op or absent, all 1024
\* storage bytes are zero after any sequence of quotes, executes and resets.
C17_NoOpHookKeepsStorageZero ==
    (backend.noop \/ ~backend.after_swap_fn)
       => /\ storage.len = 1024
          /\ \A i \in 1..storage.len : ByteAt(storage, i) = 0

\* A second trade on a pool with a no-op hook, the hook called both times.
C17_Witness ==
    /\ backend.noop
    /\ last.op = "execute_sell_x"
    /\ last.ret > 0
    /\ \E i \in CallsOf(last, "after_swap") : last.calls[i].ok
    /\ reserve_x = 4
    /\ reserve_y = 2

\* A trade on a native pool without a hook.
C17_WitnessAbsent ==
    /\ ~backend.after_swap_fn
    /\ last.op = "execute_buy_x"
    /\ last.ret > 0
    /\ reserve_y > 0

====
